---- MODULE Spec2Model ----
(***************************************************************************)
(* Model of src/app.py (HPE Expert Reviewer Pro, a Streamlit page).        *)
(*                                                                         *)
(* A Streamlit page is a script that is re-executed from the top for every *)
(* user interaction; st.session_state survives between executions, also    *)
(* when an execution is aborted by an uncaught exception.  The model       *)
(* follows one session: `pc` is the position of the running script         *)
(* ("idle" = the page is rendered and waits for the user).                 *)
(*                                                                         *)
(* Python strings are sequences of tokens: a token is either one           *)
(* character (where the code looks at characters: the scan response that   *)
(* is searched for '[' and ']', the tool-check answer that is searched for *)
(* "YES") or one fixed piece of text of a template.  String concatenation  *)
(* is \o.                                                                  *)
(*                                                                         *)
(* Python lists of dicts are modelled with reference semantics: `heap` is  *)
(* the store of dict objects, a list is a sequence of references into it.  *)
(***************************************************************************)
EXTENDS Integers, Sequences, FiniteSets, TLC

----------------------------------------------------------------------------
(* Bounds of the model *)

\* longest scan response enumerated by PipelineSpec
MaxLen == 5
\* the persisted transcript never grows beyond this many turns
MaxHistory == 8

----------------------------------------------------------------------------
(* Strings *)

\* the characters scan responses are made of
Chars == {"[", "]", "\"", ",", "a", "1"}

\* every string over alphabet A of length at most n
StringsUpTo(A, n) == UNION {[1..k -> A] : k \in 0..n}

\* str.find(c): 0-based index of the first occurrence of c, or -1
Find(s, c) ==
  IF \E i \in 1..Len(s) : s[i] = c
    THEN (CHOOSE i \in 1..Len(s) : s[i] = c /\ \A j \in 1..(i-1) : s[j] # c) - 1
    ELSE -1

\* Python's s[start:end] for ints start, end (negative indexes count from
\* the end, out-of-range indexes are clamped)
Slice(s, start, end) ==
  LET n  == Len(s)
      cl(i) == IF i < 0 THEN (IF n + i < 0 THEN 0 ELSE n + i)
                        ELSE (IF i > n THEN n ELSE i)
      lo == cl(start)
      hi == cl(end)
  IN  IF lo >= hi THEN <<>> ELSE SubSeq(s, lo + 1, hi)

\* sub in s  (Python substring test)
Contains(s, sub) ==
  \E i \in 0..(Len(s) - Len(sub)) : SubSeq(s, i + 1, i + Len(sub)) = sub

\* str.upper() on the characters the tool-check answers are made of
UpperChar(c) ==
  CASE c = "y" -> "Y"
    [] c = "e" -> "E"
    [] c = "s" -> "S"
    [] c = "n" -> "N"
    [] c = "o" -> "O"
    [] OTHER   -> c

Upper(s) == [i \in 1..Len(s) |-> UpperChar(s[i])]

----------------------------------------------------------------------------
(* ast.literal_eval on the slice raw_text[start:end]                       *)
(*                                                                         *)
(* A parsed list element is [t |-> "str" | "int", v |-> its characters].   *)
(* The only digit of the alphabet is "1", so an int literal has no leading *)
(* zero and str() of the int is the literal's own digits.                  *)
(* The result of a parse is [ok |-> BOOLEAN, val |-> list]; ok = FALSE     *)
(* stands for literal_eval raising (SyntaxError or ValueError).            *)

ParseFail == [ok |-> FALSE, val |-> <<>>]

\* b[i], b[i+1], b[i+2] are three quotes: a triple-quoted literal opens (or
\* closes) at i
Triple(b, i) ==
  i + 2 <= Len(b) /\ b[i] = "\"" /\ b[i + 1] = "\"" /\ b[i + 2] = "\""

\* Scanner over the text between the brackets.  mode:
\*   "expect"   at the start or after a comma: an element or the end
\*   "instr"    inside a "..." literal (cur = the characters so far)
\*   "intriple" inside a """...""" literal
\*   "afterstr" after a closing quote: an adjacent literal is concatenated
\*   "innum"    inside an int literal
\* A name (the letter a outside a literal) is no literal: ValueError.
RECURSIVE ParseItems(_, _, _, _, _)
ParseItems(b, i, mode, acc, cur) ==
  IF i > Len(b)
    THEN CASE mode = "expect"   -> [ok |-> TRUE, val |-> acc]
           [] mode = "afterstr" -> [ok |-> TRUE, val |-> Append(acc, [t |-> "str", v |-> cur])]
           [] mode = "innum"    -> [ok |-> TRUE, val |-> Append(acc, [t |-> "int", v |-> cur])]
           [] OTHER             -> ParseFail
    ELSE LET c == b[i] IN
      CASE mode = "expect" ->
             IF Triple(b, i) THEN ParseItems(b, i + 3, "intriple", acc, <<>>)
             ELSE IF c = "\"" THEN ParseItems(b, i + 1, "instr", acc, <<>>)
             ELSE IF c = "1" THEN ParseItems(b, i + 1, "innum", acc, <<c>>)
             ELSE ParseFail
        [] mode = "instr" ->
             IF c = "\"" THEN ParseItems(b, i + 1, "afterstr", acc, cur)
             ELSE ParseItems(b, i + 1, "instr", acc, Append(cur, c))
        [] mode = "intriple" ->
             IF Triple(b, i) THEN ParseItems(b, i + 3, "afterstr", acc, cur)
             ELSE ParseItems(b, i + 1, "intriple", acc, Append(cur, c))
        [] mode = "afterstr" ->
             IF Triple(b, i) THEN ParseItems(b, i + 3, "intriple", acc, cur)
             ELSE IF c = "\"" THEN ParseItems(b, i + 1, "instr", acc, cur)
             ELSE IF c = "," THEN ParseItems(b, i + 1, "expect", Append(acc, [t |-> "str", v |-> cur]), <<>>)
             ELSE ParseFail
        [] mode = "innum" ->
             IF c = "1" THEN ParseItems(b, i + 1, "innum", acc, Append(cur, c))
             ELSE IF c = "," THEN ParseItems(b, i + 1, "expect", Append(acc, [t |-> "int", v |-> cur]), <<>>)
             ELSE ParseFail
        [] OTHER -> ParseFail

\* ast.literal_eval(src) for the slices lines 120-122 can produce over Chars:
\* the empty string, "]", or the text from the first '[' to the first ']'
LiteralEval(src) ==
  IF Len(src) >= 2 /\ src[1] = "[" /\ src[Len(src)] = "]"
       /\ \A i \in 1..(Len(src) - 1) : src[i] # "]"
    THEN ParseItems(SubSeq(src, 2, Len(src) - 1), 1, "expect", <<>>, <<>>)
    ELSE ParseFail

\* the fallback of line 124
DefaultQueries == << [t |-> "str", v |-> <<"Medical education research trends">>] >>

\* lines 118-124: the try block and its bare except
ExtractQueries(raw) ==
  LET start == Find(raw, "[")
      end   == Find(raw, "]") + 1
      r     == LiteralEval(Slice(raw, start, end))
  IN  IF r.ok THEN r.val ELSE DefaultQueries

----------------------------------------------------------------------------
(* The external collaborators: what they answer is an input of the model   *)

\* the files the user can put in the uploader ("none" = the uploader is empty)
NoFile == "none"
Files == {"bad.pdf", "empty.pdf", "a.pdf"}

\* PdfReader(uploaded_file) raises on an unreadable file
Readable(f) == f # "bad.pdf"

\* p.extract_text() of each page of the file
PageTexts(f) ==
  CASE f = "a.pdf"     -> << <<"Intro...">>, <<"Methods...", "Results...">> >>
    [] f = "empty.pdf" -> << <<>>, <<>> >>
    [] OTHER           -> << >>

\* "".join(list of strings)
RECURSIVE JoinAll(_)
JoinAll(parts) ==
  IF parts = <<>> THEN <<>> ELSE Head(parts) \o JoinAll(Tail(parts))

\* what the scan call can answer in the session model:  []   ["a"]   a
\* (PipelineSpec enumerates every answer over Chars instead)
ScanTexts == { <<"[", "]">>, <<"[", "\"", "a", "\"", "]">>, <<"a">> }

\* what the synthesis call can answer
Reports == { <<"FINAL REPORT">> }

\* what the user can type in the chat input
ChatInputs == { <<"find references for X">> }

\* what the tool-check call can answer:  YES  yes  NO  "No, Yes"  YE  SEY
CheckTexts == { <<"Y", "E", "S">>, <<"y", "e", "s">>, <<"N", "O">>,
                <<"N", "o", ",", "Y", "e", "s">>, <<"Y", "E">>, <<"S", "E", "Y">> }

\* what the chat completion stream can deliver
ChatAnswers == { <<"answer">> }

\* how a search backend can behave on one call
BackendResponses == {"raise", "nothing", "hits"}

\* the behaviours the session model draws from: a failure and a success
SessionBackend == {"raise", "hits"}

\* lines 36-63: search_pubmed, given how the backend behaved
search_pubmed(query, backend) ==
  CASE backend = "raise"   -> <<"PubMed Error: ", "e">>
    [] backend = "nothing" -> <<"No PubMed articles found.">>
    [] OTHER               -> <<"- **title** (source, pubdate)">>

\* lines 65-73: search_web, given how the backend behaved
search_web(query, backend) ==
  CASE backend = "raise"   -> <<"Web search unavailable.">>
    [] backend = "nothing" -> <<"No web results found.">>
    [] OTHER               -> <<"- title: body (Source: href)">>

----------------------------------------------------------------------------
(* Prompt templates *)

\* line 96: text[:100000]
ScanTextLimit == 100000

\* lines 93-108
prompt_scan(text) ==
  <<"Analyze this manuscript <manuscript>">> \o Slice(text, 0, ScanTextLimit)
     \o <<"</manuscript> Task 1 ... Task 2 ... Output Format: ONLY a Python list of strings">>

\* f"{q}": str() of a parsed element
Str(q) == q.v

HeadingToken == "### Checking Claim/Ref: '"
PubMedErrorToken == "PubMed Error: "
WebUnavailableToken == "Web search unavailable."

\* line 133: what one query adds to the evidence block
EvidenceEntry(q, pubmed_res, web_res) ==
  <<HeadingToken>> \o Str(q) \o <<"' **PubMed found:** ">> \o pubmed_res
     \o <<" **Web found:** ">> \o web_res \o <<"(blank line)">>

\* lines 143-168
final_prompt(block, similar) ==
  <<"You are the Editor-in-Chief. ... 2. Verification Evidence: ">> \o block
     \o <<"3. Similar/Recent Papers found in PubMed: ">> \o similar
     \o <<"REPORT SECTIONS ... 5. Similar Work: Mention the similar papers found (">> \o similar
     \o <<") ... Tone: Strict, Academic, Helpful.">>

SystemToken == "[SYSTEM: I performed a live search based on the user question.]"

\* line 249
ContextAdd(pm_res, web_res) ==
  <<SystemToken, "PubMed Results: ">> \o pm_res \o <<"Web Results: ">> \o web_res

YES == <<"Y", "E", "S">>

\* a gate that forgets .upper()
SearchGateCaseSensitive(chk) == Contains(chk, YES)

\* line 245: "YES" in check.upper()
SearchGate(chk) == Contains(Upper(chk), YES)

\* a copy of the last five references only (four earlier turns and the
\* current one)
ListCopyWindow(lst) ==
  SubSeq(lst, IF Len(lst) > 5 THEN Len(lst) - 4 ELSE 1, Len(lst))

\* line 255: list.copy() is a shallow copy: a new list of the same references
ListCopy(lst) == lst

----------------------------------------------------------------------------
(* State *)

VARIABLES
  \* st.session_state (lines 30-32)
  chat_history,     \* list of references to turn dicts
  full_text,        \* the manuscript text, <<>> = ""
  analysis_report,  \* the report, <<>> = ""
  \* the Python objects
  heap,             \* heap[r] = the dict [role, content] behind reference r
  \* the page
  uploaded_file,    \* value of the file uploader widget
  notice,           \* what lines 206/208 showed in this run: none/success/error
  \* the running script
  pc,               \* position of the script; "idle" = waiting for the user
  trigger,          \* what started this run: none/file/reset/start/rerun/chat
  raised,           \* the uncaught exception that ended this run, or "none"
  \* locals of analyze_manuscript
  msg1,             \* text of the scan response
  raw_text, queries, qi, evidence_block, similar_papers,
  backend_log,      \* how the backends behaved for each query of the loop
  \* locals of the chat block
  prompt, check, context_add, temp_messages, response,
  \* the outside world as this run saw it
  sent,             \* messages of the last call that replayed the transcript
  pubmed_calls,     \* queries passed to search_pubmed in this run
  web_calls         \* queries passed to search_web in this run

session == <<chat_history, full_text, analysis_report, heap>>
page    == <<uploaded_file, notice>>
alocals == <<msg1, raw_text, queries, qi, evidence_block, similar_papers, backend_log>>
clocals == <<prompt, check, context_add, temp_messages, response>>
world   == <<sent, pubmed_calls, web_calls>>
vars    == <<session, page, pc, trigger, raised, alocals, clocals, world>>

\* the dict behind the i-th turn of the persisted transcript
Turn(i) == heap[chat_history[i]]

\* the list of dicts a list of references stands for
Deref(h, lst) == [i \in 1..Len(lst) |-> h[lst[i]]]

\* lst.append({"role": role, "content": content}): a new dict, and the list
\* holds a reference to it
AppendTurn(st, role, content) ==
  [heap |-> Append(st.heap, [role |-> role, content |-> content]),
   chat |-> Append(st.chat, Len(st.heap) + 1)]

Now == [heap |-> heap, chat |-> chat_history]

\* a new script run starts with fresh locals and a blank page
FreshRun ==
  /\ notice' = "none"
  /\ raised' = "none"
  /\ msg1' = <<>> /\ raw_text' = <<>> /\ queries' = <<>> /\ qi' = 0
  /\ evidence_block' = <<>> /\ similar_papers' = <<>> /\ backend_log' = <<>>
  /\ check' = <<>> /\ context_add' = <<>> /\ temp_messages' = <<>>
  /\ response' = <<>>
  /\ sent' = <<>> /\ pubmed_calls' = <<>> /\ web_calls' = <<>>

\* lines 30-32, nothing uploaded, page rendered
Init ==
  /\ chat_history = <<>> /\ full_text = <<>> /\ analysis_report = <<>>
  /\ heap = <<>>
  /\ uploaded_file = NoFile /\ notice = "none"
  /\ pc = "idle" /\ trigger = "none" /\ raised = "none"
  /\ msg1 = <<>> /\ raw_text = <<>> /\ queries = <<>> /\ qi = 0
  /\ evidence_block = <<>> /\ similar_papers = <<>> /\ backend_log = <<>>
  /\ prompt = <<>> /\ check = <<>> /\ context_add = <<>>
  /\ temp_messages = <<>> /\ response = <<>>
  /\ sent = <<>> /\ pubmed_calls = <<>> /\ web_calls = <<>>

----------------------------------------------------------------------------
(* What the user can do on the rendered page *)

\* line 210: the Start button is on the page
StartOffered == full_text # <<>> /\ analysis_report = <<>>

\* line 215: the tabs (and the chat input) are on the page
ChatOffered == analysis_report # <<>>

\* line 193: the user puts a file in the uploader, or removes it
ChangeFile(f) ==
  /\ pc = "idle"
  /\ f # uploaded_file
  /\ uploaded_file' = f
  /\ trigger' = "file"
  /\ pc' = "load"
  /\ FreshRun
  /\ UNCHANGED <<session, prompt>>

\* lines 194-198: Reset System, then st.rerun()
ClickReset ==
  /\ pc = "idle"
  /\ chat_history' = <<>>
  /\ full_text' = <<>>
  /\ analysis_report' = <<>>
  /\ heap' = <<>>
  /\ trigger' = "reset"
  /\ pc' = "load"
  /\ FreshRun
  /\ UNCHANGED <<uploaded_file, prompt>>

\* line 211: the user clicks Start Deep Analysis
ClickStart ==
  /\ pc = "idle"
  /\ StartOffered
  /\ Len(chat_history) + 4 <= MaxHistory
  /\ trigger' = "start"
  /\ pc' = "load"
  /\ FreshRun
  /\ UNCHANGED <<session, uploaded_file, prompt>>

\* line 231: the user submits a chat message
SubmitChat(m) ==
  /\ pc = "idle"
  /\ ChatOffered
  /\ Len(chat_history) + 2 <= MaxHistory
  /\ prompt' = m
  /\ trigger' = "chat"
  /\ pc' = "load"
  /\ FreshRun
  /\ UNCHANGED <<session, uploaded_file>>

----------------------------------------------------------------------------
(* The script: loading the PDF (lines 201-208) and the dispatch that       *)
(* follows it (lines 210, 211, 215, 231)                                   *)

\* a load that does not look at full_text
NeedsLoadUnguarded == uploaded_file # NoFile

\* line 201
NeedsLoad == uploaded_file # NoFile /\ full_text = <<>>

LoadPdf ==
  /\ pc = "load"
  /\ IF NeedsLoad
       THEN IF Readable(uploaded_file)
              THEN /\ full_text' = JoinAll(PageTexts(uploaded_file))
                   /\ notice' = "success"
              ELSE /\ full_text' = full_text
                   /\ notice' = "error"
       ELSE UNCHANGED <<full_text, notice>>
  /\ pc' = IF full_text' # <<>> /\ analysis_report = <<>> /\ trigger = "start"
             THEN "scan"
           ELSE IF analysis_report # <<>> /\ trigger = "chat"
             THEN "chat_user"
           ELSE "idle"
  /\ UNCHANGED <<chat_history, analysis_report, heap, uploaded_file, trigger,
                 raised, alocals, clocals, world>>

----------------------------------------------------------------------------
(* analyze_manuscript (lines 81-186), called from line 212 *)

\* lines 110-115: the scan call answers
ScanAnswers(txt) ==
  /\ pc = "scan"
  /\ msg1' = txt
  /\ pc' = "extract"
  /\ UNCHANGED <<session, page, trigger, raised, raw_text, queries, qi,
                 evidence_block, similar_papers, backend_log, clocals, world>>

\* lines 110-115: the scan call raises; nothing catches it, the run ends
ScanRaises ==
  /\ pc = "scan"
  /\ raised' = "APIError"
  /\ pc' = "idle"
  /\ UNCHANGED <<session, page, trigger, alocals, clocals, world>>

\* lines 117-129
AnalyzeExtract ==
  /\ pc = "extract"
  /\ raw_text' = msg1
  /\ queries' = ExtractQueries(msg1)
  /\ evidence_block' = <<>>
  /\ qi' = 0
  /\ pc' = "evidence"
  /\ UNCHANGED <<session, page, trigger, raised, msg1, similar_papers,
                 backend_log, clocals, world>>

\* lines 130-133: one iteration of the loop over queries
EvidenceStep(pm, web) ==
  /\ pc = "evidence"
  /\ qi < Len(queries)
  /\ LET q          == queries[qi + 1]
         pubmed_res == search_pubmed(Str(q), pm)
         web_res    == search_web(Str(q), web)
     IN  /\ evidence_block' = evidence_block \o EvidenceEntry(q, pubmed_res, web_res)
         /\ pubmed_calls' = Append(pubmed_calls, Str(q))
         /\ web_calls' = Append(web_calls, Str(q))
  /\ backend_log' = Append(backend_log, <<pm, web>>)
  /\ qi' = qi + 1
  /\ UNCHANGED <<session, page, pc, trigger, raised, msg1, raw_text, queries,
                 similar_papers, clocals, sent>>

\* line 130: the loop is over
EvidenceDone ==
  /\ pc = "evidence"
  /\ qi = Len(queries)
  /\ pc' = "similar"
  /\ UNCHANGED <<session, page, trigger, raised, alocals, clocals, world>>

\* line 138 on a non-empty list
SimilarPapers(pm) ==
  /\ pc = "similar"
  /\ queries # <<>>
  /\ LET query == Str(queries[1]) \o <<" review">>
     IN  /\ similar_papers' = search_pubmed(query, pm)
         /\ pubmed_calls' = Append(pubmed_calls, query)
  /\ pc' = "synth"
  /\ UNCHANGED <<session, page, trigger, raised, msg1, raw_text, queries, qi,
                 evidence_block, backend_log, clocals, sent, web_calls>>

\* line 138 on an empty list: queries[0] raises IndexError, the run ends
SimilarRaises ==
  /\ pc = "similar"
  /\ queries = <<>>
  /\ raised' = "IndexError"
  /\ pc' = "idle"
  /\ UNCHANGED <<session, page, trigger, alocals, clocals, world>>

\* lines 171-173: the three turns appended before the synthesis call
BeforeSynthesis ==
  AppendTurn(
    AppendTurn(
      AppendTurn(Now, "user", prompt_scan(full_text)),
      "assistant", raw_text),
    "user", final_prompt(evidence_block, similar_papers))

\* lines 170-186, then lines 212-213: the synthesis call answers
SynthesisAnswers(report) ==
  /\ pc = "synth"
  /\ LET st == AppendTurn(BeforeSynthesis, "assistant", report)
     IN  /\ sent' = Deref(BeforeSynthesis.heap, BeforeSynthesis.chat)
         /\ heap' = st.heap
         /\ chat_history' = st.chat
  /\ analysis_report' = report
  /\ trigger' = "rerun"
  /\ pc' = "load"
  /\ UNCHANGED <<full_text, page, raised, alocals, clocals, pubmed_calls, web_calls>>

\* lines 170-180: the synthesis call raises, after the three appends
SynthesisRaises ==
  /\ pc = "synth"
  /\ sent' = Deref(BeforeSynthesis.heap, BeforeSynthesis.chat)
  /\ heap' = BeforeSynthesis.heap
  /\ chat_history' = BeforeSynthesis.chat
  /\ raised' = "APIError"
  /\ pc' = "idle"
  /\ UNCHANGED <<full_text, analysis_report, page, trigger, alocals, clocals,
                 pubmed_calls, web_calls>>

----------------------------------------------------------------------------
(* The chat block (lines 231-267) *)

\* lines 231-233
ChatUser ==
  /\ pc = "chat_user"
  /\ LET st == AppendTurn(Now, "user", prompt)
     IN  heap' = st.heap /\ chat_history' = st.chat
  /\ pc' = "tool_check"
  /\ UNCHANGED <<full_text, analysis_report, page, trigger, raised, alocals,
                 clocals, world>>

\* lines 238-242: the tool-check call answers
ToolCheckAnswers(txt) ==
  /\ pc = "tool_check"
  /\ check' = txt
  /\ pc' = "gate"
  /\ UNCHANGED <<session, page, trigger, raised, alocals, prompt, context_add,
                 temp_messages, response, world>>

\* lines 238-242: the tool-check call raises, the run ends
ToolCheckRaises ==
  /\ pc = "tool_check"
  /\ raised' = "APIError"
  /\ pc' = "idle"
  /\ UNCHANGED <<session, page, trigger, alocals, clocals, world>>

\* lines 244-249 when the gate opens
GateSearches(pm, web) ==
  /\ pc = "gate"
  /\ SearchGate(check)
  /\ LET pm_res  == search_pubmed(prompt, pm)
         web_res == search_web(prompt, web)
     IN  context_add' = ContextAdd(pm_res, web_res)
  /\ pubmed_calls' = Append(pubmed_calls, prompt)
  /\ web_calls' = Append(web_calls, prompt)
  /\ pc' = "compose"
  /\ UNCHANGED <<session, page, trigger, raised, alocals, prompt, check,
                 temp_messages, response, sent>>

\* lines 244-245 when the gate stays shut
GateSkips ==
  /\ pc = "gate"
  /\ ~SearchGate(check)
  /\ context_add' = <<>>
  /\ pc' = "compose"
  /\ UNCHANGED <<session, page, trigger, raised, alocals, prompt, check,
                 temp_messages, response, world>>

\* lines 252-257: temp_messages[-1] is a reference to a dict; assigning its
\* 'content' changes that dict, whichever lists refer to it
ChatCompose ==
  /\ pc = "compose"
  /\ LET final_chat_prompt == prompt \o context_add
         tm                == ListCopy(chat_history)
     IN  /\ temp_messages' = tm
         /\ heap' = IF context_add # <<>>
                      THEN [heap EXCEPT ![tm[Len(tm)]].content = final_chat_prompt]
                      ELSE heap
  /\ pc' = "stream"
  /\ UNCHANGED <<chat_history, full_text, analysis_report, page, trigger,
                 raised, alocals, prompt, check, context_add, response, world>>

\* lines 259-265: the call is made with temp_messages and the stream ends
StreamAnswers(txt) ==
  /\ pc = "stream"
  /\ sent' = Deref(heap, temp_messages)
  /\ response' = txt
  /\ pc' = "persist"
  /\ UNCHANGED <<session, page, trigger, raised, alocals, prompt, check,
                 context_add, temp_messages, pubmed_calls, web_calls>>

\* lines 259-265: the call or the stream raises, the run ends
StreamRaises ==
  /\ pc = "stream"
  /\ sent' = Deref(heap, temp_messages)
  /\ raised' = "APIError"
  /\ pc' = "idle"
  /\ UNCHANGED <<session, page, trigger, alocals, clocals, pubmed_calls, web_calls>>

\* line 267
ChatPersist ==
  /\ pc = "persist"
  /\ LET st == AppendTurn(Now, "assistant", response)
     IN  heap' = st.heap /\ chat_history' = st.chat
  /\ pc' = "idle"
  /\ UNCHANGED <<full_text, analysis_report, page, trigger, raised, alocals,
                 clocals, world>>

----------------------------------------------------------------------------
(* Specifications *)

Analyze ==
  \/ \E txt \in ScanTexts : ScanAnswers(txt)
  \/ ScanRaises
  \/ AnalyzeExtract
  \/ \E pm \in SessionBackend, web \in SessionBackend : EvidenceStep(pm, web)
  \/ EvidenceDone
  \/ \E pm \in SessionBackend : SimilarPapers(pm)
  \/ SimilarRaises
  \/ \E report \in Reports : SynthesisAnswers(report)
  \/ SynthesisRaises

Chat ==
  \/ ChatUser
  \/ \E txt \in CheckTexts : ToolCheckAnswers(txt)
  \/ ToolCheckRaises
  \/ \E pm \in SessionBackend, web \in SessionBackend : GateSearches(pm, web)
  \/ GateSkips
  \/ ChatCompose
  \/ \E txt \in ChatAnswers : StreamAnswers(txt)
  \/ StreamRaises
  \/ ChatPersist

Next ==
  \/ \E f \in Files \cup {NoFile} : ChangeFile(f)
  \/ ClickReset
  \/ ClickStart
  \/ \E m \in ChatInputs : SubmitChat(m)
  \/ LoadPdf
  \/ Analyze
  \/ Chat

\* one session of the page
Spec == Init /\ [][Next]_vars

\* the pipeline from query extraction to the similar-papers lookup, started
\* on every scan answer over Chars of at most MaxLen characters
PipelineInit ==
  /\ chat_history = <<>> /\ analysis_report = <<>> /\ heap = <<>>
  /\ uploaded_file = "a.pdf" /\ full_text = JoinAll(PageTexts("a.pdf"))
  /\ notice = "none"
  /\ pc = "extract" /\ trigger = "start" /\ raised = "none"
  /\ msg1 \in StringsUpTo(Chars, MaxLen)
  /\ raw_text = <<>> /\ queries = <<>> /\ qi = 0
  /\ evidence_block = <<>> /\ similar_papers = <<>> /\ backend_log = <<>>
  /\ prompt = <<>> /\ check = <<>> /\ context_add = <<>>
  /\ temp_messages = <<>> /\ response = <<>>
  /\ sent = <<>> /\ pubmed_calls = <<>> /\ web_calls = <<>>

PipelineNext ==
  \/ AnalyzeExtract
  \/ \E pm \in BackendResponses, web \in BackendResponses : EvidenceStep(pm, web)
  \/ EvidenceDone
  \/ \E pm \in BackendResponses : SimilarPapers(pm)
  \/ SimilarRaises

PipelineSpec == PipelineInit /\ [][PipelineNext]_vars

----------------------------------------------------------------------------
(* Properties of the chat turn *)

\* the chat turn has appended the user's turn and not yet the answer
InChatTurn ==
  trigger = "chat" /\ pc \in {"tool_check", "gate", "compose", "stream", "persist"}

\* C1: the search results of a chat turn never reach the persisted
\* transcript: no persisted turn contains the injected evidence text, and the
\* persisted user turn of the running chat turn is the raw user message.
C1_EvidenceNotPersisted ==
  /\ \A i \in 1..Len(chat_history) : ~Contains(Turn(i).content, <<SystemToken>>)
  /\ InChatTurn => Turn(Len(chat_history)).content = prompt

\* txt contains y/Y, e/E, s/S at consecutive positions
HasYesAnyCase(txt) ==
  \E i \in 1..(Len(txt) - 2) :
    /\ txt[i] \in {"y", "Y"}
    /\ txt[i + 1] \in {"e", "E"}
    /\ txt[i + 2] \in {"s", "S"}

\* C6: in a chat turn the search backends are called if and only if the
\* tool-check answer contains YES in any letter case; then each backend is
\* called exactly once with the raw user message, otherwise neither is called.
C6_SearchIffYes ==
  trigger = "chat" =>
    IF pc \in {"load", "chat_user", "tool_check", "gate"}
      THEN pubmed_calls = <<>> /\ web_calls = <<>>
      ELSE IF HasYesAnyCase(check)
             THEN pubmed_calls = <<prompt>> /\ web_calls = <<prompt>>
             ELSE pubmed_calls = <<>> /\ web_calls = <<>>

\* a chat turn searched on an answer that is not the exact text YES
C6_Witness ==
  /\ trigger = "chat" /\ pc = "persist"
  /\ HasYesAnyCase(check) /\ check # YES
  /\ pubmed_calls = <<prompt>> /\ web_calls = <<prompt>>

----------------------------------------------------------------------------
(* Properties of the analysis run *)

\* C2: when an analysis run has returned its report, the persisted
\* transcript is exactly the four turns scan prompt, scan output, synthesis
\* prompt, report.
C2_TranscriptIsFourTurns ==
  trigger = "rerun" =>
    Deref(heap, chat_history) =
      << [role |-> "user",      content |-> prompt_scan(full_text)],
         [role |-> "assistant", content |-> raw_text],
         [role |-> "user",      content |-> final_prompt(evidence_block, similar_papers)],
         [role |-> "assistant", content |-> analysis_report] >>

\* C10: whenever the page waits for the user, the roles of the persisted
\* transcript alternate, starting with user.
C10_RolesAlternate ==
  pc = "idle" =>
    \A i \in 1..Len(chat_history) :
      Turn(i).role = IF i % 2 = 1 THEN "user" ELSE "assistant"

\* C3: the query list is a non-empty list of strings when the evidence loop
\* begins and when line 138 reads queries[0], and the run does not raise
\* because of the list.
C3_QueriesNonEmptyStrings ==
  /\ pc \in {"evidence", "similar"} =>
       /\ queries # <<>>
       /\ \A i \in 1..Len(queries) : queries[i].t = "str"
  /\ raised # "IndexError"

\* 0-based index of the last occurrence of c, or -1
FindLast(s, c) ==
  IF \E i \in 1..Len(s) : s[i] = c
    THEN (CHOOSE i \in 1..Len(s) : s[i] = c /\ \A j \in (i+1)..Len(s) : s[j] # c) - 1
    ELSE -1

\* the query list C4 promises: the strings of the list literal that runs
\* from the first '[' to the last ']', the default for every other text
ClaimedQueries(raw) ==
  LET first == Find(raw, "[")
      last  == FindLast(raw, "]")
      r     == IF first >= 0 /\ last > first
                 THEN ParseItems(SubSeq(raw, first + 2, last), 1, "expect", <<>>, <<>>)
                 ELSE ParseFail
  IN  IF r.ok /\ \A i \in 1..Len(r.val) : r.val[i].t = "str"
        THEN r.val
        ELSE DefaultQueries

\* C4: extraction returns the strings of a valid bracketed list-of-strings
\* literal in order, and the single default query for every other text.
C4_ExtractionContract ==
  pc # "extract" => queries = ClaimedQueries(raw_text)

\* the positions of the headings in the block
HeadingPositions(block) == {i \in 1..Len(block) : block[i] = HeadingToken}

\* position of the k-th heading
HeadingAt(block, k) ==
  CHOOSE p \in HeadingPositions(block) :
    Cardinality({x \in HeadingPositions(block) : x < p}) = k - 1

\* the part of the block from the k-th heading to the next one
Section(block, k) ==
  LET n == Cardinality(HeadingPositions(block))
  IN  SubSeq(block, HeadingAt(block, k),
             IF k < n THEN HeadingAt(block, k + 1) - 1 ELSE Len(block))

\* the evidence loop is over
EvidenceBuilt == pc \in {"similar", "synth"} \/ raised = "IndexError"

\* C5: the evidence block has one heading per query, in query order, each
\* section holding a placeholder line for every backend call that failed,
\* and the block is never empty.
C5_EvidenceBlockContract ==
  EvidenceBuilt =>
    /\ Cardinality(HeadingPositions(evidence_block)) = Len(queries)
    /\ \A k \in 1..Len(queries) :
         LET sec == Section(evidence_block, k)
         IN  /\ SubSeq(sec, 2, 1 + Len(Str(queries[k]))) = Str(queries[k])
             /\ backend_log[k][1] = "raise" => Contains(sec, <<PubMedErrorToken>>)
             /\ backend_log[k][2] = "raise" => Contains(sec, <<WebUnavailableToken>>)
    /\ evidence_block # <<>>

----------------------------------------------------------------------------
(* Properties of the manuscript text *)

\* C8: once the manuscript text is set, no step changes it except Reset,
\* which empties it together with the transcript and the report.
C8_ManuscriptSetOnce ==
  [][full_text # <<>> =>
       \/ full_text' = full_text
       \/ /\ pc = "idle" /\ trigger' = "reset"
          /\ full_text' = <<>>
          /\ chat_history' = <<>>
          /\ analysis_report' = <<>>]_vars

\* the load step has run with a different file in the uploader and left
\* the manuscript text alone
C8_Witness ==
  /\ pc = "idle" /\ trigger = "file"
  /\ full_text # <<>>
  /\ uploaded_file \in Files
  /\ Readable(uploaded_file)
  /\ JoinAll(PageTexts(uploaded_file)) # full_text

\* extraction of the uploaded file raises or yields no text
ExtractionFails ==
  ~Readable(uploaded_file) \/ JoinAll(PageTexts(uploaded_file)) = <<>>

\* C9: a load whose extraction raises or yields no text leaves transcript
\* and report unchanged and the manuscript text empty, does not offer the
\* analysis, and shows an error.
C9_FailedLoadReported ==
  [][pc = "load" /\ NeedsLoad /\ ExtractionFails =>
       /\ chat_history' = chat_history
       /\ analysis_report' = analysis_report
       /\ full_text' = <<>>
       /\ ~StartOffered'
       /\ notice' = "error"]_vars

====
